---------------------------- MODULE Spec2Model ----------------------------
(***************************************************************************)
(* A model of the two training programs of the repository:                 *)
(*                                                                         *)
(*   src/ppo.py    class PPO: learn, rollout, get_action, evaluate,        *)
(*                 compute_rtgs                                            *)
(*   src/agent.py  class Agent (replay memory, epsilon-greedy get_action)  *)
(*                 and the training loop train()                           *)
(*                                                                         *)
(* Numbers.  The programs compute with floating point numbers.  The model  *)
(* computes with exact rationals <<n, d>> (d > 0, lowest terms) and draws  *)
(* its inputs from dyadic values, on which the float operations of the     *)
(* code are exact; Float32 marks any value a float32 could not hold.       *)
(*                                                                         *)
(* Networks.  The actor and the critic (network.FeedForwardNN) and the     *)
(* game (pacman.GameInstance) are not part of the repository's sources.    *)
(* A parameter set is modelled by the number of optimizer steps applied    *)
(* to it, a network output by the term naming its inputs, and the game by  *)
(* a nondeterministic environment whose episodes end within a bound.       *)
(***************************************************************************)
EXTENDS Integers, Sequences, FiniteSets, TLC

(***************************************************************************)
(* Bounds of the model                                                     *)
(***************************************************************************)
RtgMaxEps == 2        \* episodes in an input batch of compute_rtgs
RtgMaxEpLen == 3      \* rewards in an input episode of compute_rtgs
LossMaxBatch == 2     \* samples in an input batch of the actor loss
MaxBatch == 2         \* largest timesteps_per_batch
MaxEpLen == 2         \* longest episode the environment plays
MaxBudget == 3        \* largest total_timesteps given to learn
MaxUpdates == 2       \* largest n_updates_per_iteration
MaxMemory == 3        \* largest capacity of the replay memory
MaxInserts == 5       \* calls of remember

(***************************************************************************)
(* Exact rational arithmetic                                               *)
(***************************************************************************)
Abs(n) == IF n < 0 THEN -n ELSE n

\* The operations are functions, so that an argument is a value when the
\* body is evaluated.
Rat == Int \X Nat

GCD[a \in Nat, b \in Nat] == IF b = 0 THEN a ELSE GCD[b, a % b]

Norm[n \in Int, d \in Nat] ==
    IF n = 0 THEN <<0, 1>>
    ELSE LET g == GCD[Abs(n), d] IN <<n \div g, d \div g>>

RInt(n) == <<n, 1>>
RAdd[p \in Rat, q \in Rat] == Norm[p[1] * q[2] + q[1] * p[2], p[2] * q[2]]
RSub[p \in Rat, q \in Rat] == Norm[p[1] * q[2] - q[1] * p[2], p[2] * q[2]]
RMul[p \in Rat, q \in Rat] == Norm[p[1] * q[1], p[2] * q[2]]
RDivInt[p \in Rat, n \in Nat] == Norm[p[1], p[2] * n]
RNeg(p) == <<-p[1], p[2]>>
RLe(p, q) == p[1] * q[2] <= q[1] * p[2]
RLt(p, q) == p[1] * q[2] < q[1] * p[2]
RMin(p, q) == IF RLe(p, q) THEN p ELSE q
RMax(p, q) == IF RLe(p, q) THEN q ELSE p

RECURSIVE IsPow2(_)
IsPow2(d) == IF d = 1 THEN TRUE ELSE IF d % 2 = 1 THEN FALSE ELSE IsPow2(d \div 2)

\* torch.tensor(..., dtype=torch.float) of one number: a value with a power
\* of two as denominator and a numerator below 2^24 is kept as it is; any
\* other value would be rounded, which the model marks instead of computing.
Float32(q) ==
    IF IsPow2(q[2]) /\ Abs(q[1]) < 16777216 THEN q ELSE <<"inexact", q>>

RECURSIVE tensor_prefix(_, _)
tensor_prefix(xs, k) ==
    IF k = 0 THEN <<>> ELSE Append(tensor_prefix(xs, k - 1), Float32(xs[k]))

\* torch.tensor(xs, dtype=torch.float)
tensor_float(xs) == tensor_prefix(xs, Len(xs))

(***************************************************************************)
(* PPO.compute_rtgs                                                        *)
(***************************************************************************)
\* A plausible slip: append each value instead of inserting it in front.
RECURSIVE rtgs_episode_append(_, _, _, _, _)
rtgs_episode_append(ep, k, discounted_reward, rtgs, g) ==
    IF k = 0 THEN rtgs
    ELSE LET d == RAdd[RInt(ep[k]), RMul[discounted_reward, g]] IN
         rtgs_episode_append(ep, k - 1, d, Append(rtgs, d), g)

\* The inner loop, for rew in reversed(ep_rews): k runs from the last reward
\* of the episode to the first.
RECURSIVE rtgs_episode(_, _, _, _, _)
rtgs_episode(ep, k, discounted_reward, rtgs, g) ==
    IF k = 0 THEN rtgs
    ELSE LET d == RAdd[RInt(ep[k]), RMul[discounted_reward, g]] IN
         rtgs_episode(ep, k - 1, d, <<d>> \o rtgs, g)

\* The outer loop, for ep_rews in reversed(batch_rews): the accumulator is
\* set to 0 for each episode.
RECURSIVE rtgs_batch(_, _, _, _)
rtgs_batch(rews, e, rtgs, g) ==
    IF e = 0 THEN rtgs
    ELSE rtgs_batch(rews, e - 1,
                    rtgs_episode(rews[e], Len(rews[e]), RInt(0), rtgs, g), g)

compute_rtgs(rews, g) == tensor_float(rtgs_batch(rews, Len(rews), <<>>, g))

(***************************************************************************)
(* The clipped surrogate loss of PPO.learn                                 *)
(***************************************************************************)
\* A plausible slip: the ratio is bounded from above only.
clamp_above(x, lo, hi) == RMin(x, hi)

\* torch.clamp(x, lo, hi)
clamp(x, lo, hi) == RMin(RMax(x, lo), hi)

Surr1(rs, adv) == [i \in DOMAIN rs |-> RMul[rs[i], adv[i]]]

Surr2(rs, adv, eps) ==
    [i \in DOMAIN rs |->
        RMul[clamp(rs[i], RSub[RInt(1), eps], RAdd[RInt(1), eps]), adv[i]]]

\* -torch.min(surr1, surr2), elementwise
NegMin(s1, s2) == [i \in DOMAIN s1 |-> RNeg(RMin(s1[i], s2[i]))]

RECURSIVE RSum(_, _)
RSum(xs, k) == IF k = 0 THEN RInt(0) ELSE RAdd[RSum(xs, k - 1), xs[k]]

\* tensor.mean() of a non-empty tensor
Mean(xs) == RDivInt[RSum(xs, Len(xs)), Len(xs)]

(***************************************************************************)
(* Input sets                                                              *)
(***************************************************************************)
SeqsUpTo(S, n) == UNION {[1..k -> S] : k \in 0..n}

RewardSet == {0, 1}
GammaSet == {<<0, 1>>, <<1, 2>>, <<3, 4>>}
RatioSet == {<<1, 2>>, <<9, 10>>, <<1, 1>>, <<11, 10>>, <<3, 2>>}
AdvantageSet == {<<-1, 1>>, <<0, 1>>, <<2, 1>>}
ClipSet == {<<1, 5>>, <<1, 2>>}

(***************************************************************************)
(* The environment (pacman.GameInstance, as PPO uses it) and the networks  *)
(***************************************************************************)
K_UP == "K_UP"
K_RIGHT == "K_RIGHT"
K_DOWN == "K_DOWN"
K_LEFT == "K_LEFT"

\* The game after construction and after reset(): no step played, not over.
EnvStart == [steps |-> 0, last |-> "none", over |-> FALSE]

\* What the agent observes of the game: here all of its state but the flag.
Observation(e) == <<e.steps, e.last>>

\* The game after step(direction); d says whether the game is over then.
EnvStep(e, direction, d) == [steps |-> e.steps + 1, last |-> direction, over |-> d]

\* The reward of a step: this environment pays for moving right.
EnvReward(e, direction) == IF direction = K_RIGHT THEN 1 ELSE 0

\* The vectors dist.sample() may return, one for each arg-max.
Moves == 0..3
OneHot(m) == [i \in Moves |-> IF i = m THEN 1 ELSE 0]
ActionSamples == {OneHot(m) : m \in Moves}

\* action.argmax(): the first index holding the largest component.
ArgMax(a) ==
    CHOOSE i \in DOMAIN a :
        /\ \A j \in DOMAIN a : a[j] <= a[i]
        /\ \A j \in DOMAIN a : j < i => a[j] < a[i]

\* The match statement of rollout; direction starts as K_UP.
Direction(move) ==
    CASE move = 0 -> K_UP
      [] move = 1 -> K_RIGHT
      [] move = 2 -> K_DOWN
      [] move = 3 -> K_LEFT
      [] OTHER -> K_UP

\* dist.log_prob(action) for the distribution around actor(obs): a term.
LogProb(params, o, a) == <<"log_prob", params, o, a>>

\* evaluate(batch_obs, batch_acts): the critic's values and the current
\* policy's log probabilities, as terms.
EvaluateV(params, os) == [i \in DOMAIN os |-> <<"V", params, os[i]>>]
EvaluateLogProbs(params, os, as) ==
    [i \in DOMAIN os |-> LogProb(params, os[i], as[i])]

\* A_k = batch_rtgs - V.detach(), then normalized over the batch: a term.
Advantage(rtgs, v) == <<"normalized", [i \in DOMAIN rtgs |-> <<rtgs[i], v[i]>>]>>

RECURSIVE SumSeq(_, _)
SumSeq(xs, k) == IF k = 0 THEN 0 ELSE SumSeq(xs, k - 1) + xs[k]

\* A plausible slip: the batches are counted, not their timesteps.
np_sum_batches(xs) == 1

\* np.sum(batch_lens)
np_sum(xs) == SumSeq(xs, Len(xs))

VARIABLES
    pc,               \* the position of the running program
    total_timesteps,  \* learn: the budget
    t_so_far,         \* learn: timesteps so far
    timesteps_per_batch,      \* self.timesteps_per_batch
    n_updates_per_iteration,  \* self.n_updates_per_iteration
    gamma,            \* self.gamma
    clip,             \* self.clip
    actor, critic,    \* the parameters: optimizer steps applied so far
    env,              \* the game's state
    env_cap,          \* the length at which the game ends an episode at the latest
    batch_obs, batch_acts, batch_log_probs,   \* rollout: the batch
    batch_rews,       \* rollout: the rewards, one sequence per episode
    batch_rtgs,       \* the rewards-to-go of the batch
    batch_lens,       \* rollout: the episode lengths reported
    t,                \* rollout: timesteps run so far this batch
    ep_rews, obs, done, ep_t,   \* rollout: the episode in progress
    V, curr_log_probs,          \* learn: what evaluate returned last
    upd,              \* learn: inner epochs completed in this cycle
    ratios,           \* learn: the probability ratios of one inner epoch
    A_k,              \* learn: the advantages
    surr1, surr2,     \* learn: the two surrogate terms
    actor_loss,       \* learn: the actor's loss
    steps_log,        \* history: the timesteps of the current rollout
    env_steps,        \* history: calls of env.step so far
    n_rollouts,       \* history: calls of rollout so far
    n_rtgs,           \* history: calls of compute_rtgs so far
    n_adv,            \* history: advantage computations so far
    n_games,          \* Agent: self.n_games
    epsilon,          \* Agent: self.epsilon
    memory,           \* Agent: self.memory, oldest transition first
    memory_maxlen,    \* Agent: the maxlen of self.memory
    game,             \* train: the game's state
    state_old, state_new, final_move, reward, game_done, score,  \* train
    returned_move,    \* history: what get_action returned last
    inserted          \* history: the transitions given to remember

hyperVars == <<timesteps_per_batch, n_updates_per_iteration>>
rtgVars == <<gamma, batch_rews, batch_rtgs>>
lossVars == <<clip, ratios, A_k, surr1, surr2, actor_loss>>
batchVars == <<batch_obs, batch_acts, batch_log_probs, batch_lens>>
episodeVars == <<t, ep_rews, obs, done, ep_t>>
learnVars == <<total_timesteps, t_so_far, V, curr_log_probs, upd>>
paramVars == <<actor, critic>>
envVars == <<env, env_cap>>
historyVars == <<steps_log, env_steps, n_rollouts, n_rtgs, n_adv>>

ppoVars == <<hyperVars, batchVars, episodeVars, learnVars, paramVars, envVars,
             historyVars>>

agentVars == <<n_games, epsilon, memory, memory_maxlen, inserted>>
trainVars == <<game, state_old, state_new, final_move, reward, game_done,
               score, returned_move>>
dqnVars == <<agentVars, trainVars>>

vars == <<pc, rtgVars, lossVars, ppoVars, dqnVars>>

RtgIdle == gamma = <<1, 2>> /\ batch_rews = <<>> /\ batch_rtgs = <<>>
LossIdle ==
    /\ clip = <<1, 5>> /\ ratios = <<>> /\ A_k = <<>>
    /\ surr1 = <<>> /\ surr2 = <<>> /\ actor_loss = <<0, 1>>
PPOIdle ==
    /\ timesteps_per_batch = 1 /\ n_updates_per_iteration = 1
    /\ batch_obs = <<>> /\ batch_acts = <<>> /\ batch_log_probs = <<>>
    /\ batch_lens = <<>>
    /\ t = 0 /\ ep_rews = <<>> /\ obs = Observation(EnvStart) /\ done = FALSE
    /\ ep_t = 0
    /\ total_timesteps = 0 /\ t_so_far = 0 /\ V = <<>> /\ curr_log_probs = <<>>
    /\ upd = 0
    /\ actor = 0 /\ critic = 0
    /\ env = EnvStart /\ env_cap = 1
    /\ steps_log = <<>> /\ env_steps = 0 /\ n_rollouts = 0 /\ n_rtgs = 0
    /\ n_adv = 0

\* Agent.__init__, but for the capacity of the memory
AgentInit ==
    /\ n_games = 0
    /\ epsilon = 0
    /\ memory = <<>>
    /\ inserted = <<>>

TrainIdle ==
    /\ game = 0 /\ state_old = 0 /\ state_new = 0 /\ final_move = K_UP
    /\ reward = 0 /\ game_done = FALSE /\ score = 0 /\ returned_move = K_UP

DQNIdle == AgentInit /\ memory_maxlen = 1 /\ TrainIdle

(***************************************************************************)
(* compute_rtgs on every batch of reward sequences within the bounds       *)
(***************************************************************************)
InitRtgs ==
    /\ pc = "compute_rtgs"
    /\ gamma \in GammaSet
    /\ batch_rews \in SeqsUpTo(SeqsUpTo(RewardSet, RtgMaxEpLen), RtgMaxEps)
    /\ batch_rtgs = <<>>
    /\ LossIdle
    /\ PPOIdle
    /\ DQNIdle

ComputeRtgsCall ==
    /\ pc = "compute_rtgs"
    /\ batch_rtgs' = compute_rtgs(batch_rews, gamma)
    /\ pc' = "rtgs_returned"
    /\ UNCHANGED dqnVars
    /\ UNCHANGED <<gamma, batch_rews, lossVars, ppoVars>>

NextRtgs == ComputeRtgsCall

SpecRtgs == InitRtgs /\ [][NextRtgs]_vars

(***************************************************************************)
(* The actor loss on every batch of ratios and advantages within bounds    *)
(***************************************************************************)
InitLoss ==
    /\ pc = "actor_loss"
    /\ clip \in ClipSet
    /\ \E n \in 1..LossMaxBatch :
          /\ ratios \in [1..n -> RatioSet]
          /\ A_k \in [1..n -> AdvantageSet]
    /\ surr1 = <<>> /\ surr2 = <<>> /\ actor_loss = <<0, 1>>
    /\ RtgIdle
    /\ PPOIdle
    /\ DQNIdle

ComputeActorLoss ==
    /\ pc = "actor_loss"
    /\ surr1' = Surr1(ratios, A_k)
    /\ surr2' = Surr2(ratios, A_k, clip)
    /\ actor_loss' = Mean(NegMin(surr1', surr2'))
    /\ pc' = "loss_computed"
    /\ UNCHANGED dqnVars
    /\ UNCHANGED <<clip, ratios, A_k, rtgVars, ppoVars>>

NextLoss == ComputeActorLoss

SpecLoss == InitLoss /\ [][NextLoss]_vars

(***************************************************************************)
(* PPO.learn and PPO.rollout                                               *)
(*                                                                         *)
(* The hyperparameters are fields of the object.  The source sets          *)
(* timesteps_per_batch = 10_000 and n_updates_per_iteration = 5 and calls  *)
(* learn(100_000); the model runs learn for every value of the three       *)
(* within its bounds, and with gamma = 1/2 for the source's 0.95, which    *)
(* no float holds exactly.                                                 *)
(***************************************************************************)
Init ==
    /\ pc = "learn"
    /\ total_timesteps \in 0..MaxBudget
    /\ t_so_far = 0
    /\ timesteps_per_batch \in 1..MaxBatch
    /\ n_updates_per_iteration \in 1..MaxUpdates
    /\ gamma = <<1, 2>>
    /\ clip = <<1, 5>>
    /\ actor = 0 /\ critic = 0
    /\ env = EnvStart
    /\ env_cap \in 1..MaxEpLen
    /\ batch_obs = <<>> /\ batch_acts = <<>> /\ batch_log_probs = <<>>
    /\ batch_rews = <<>> /\ batch_rtgs = <<>> /\ batch_lens = <<>>
    /\ t = 0 /\ ep_rews = <<>> /\ obs = Observation(EnvStart) /\ done = FALSE
    /\ ep_t = 0
    /\ V = <<>> /\ curr_log_probs = <<>> /\ upd = 0
    /\ ratios = <<>> /\ A_k = <<>> /\ surr1 = <<>> /\ surr2 = <<>>
    /\ actor_loss = <<0, 1>>
    /\ steps_log = <<>> /\ env_steps = 0 /\ n_rollouts = 0 /\ n_rtgs = 0
    /\ n_adv = 0
    /\ DQNIdle

\* learn, line 48: the loop test.
LearnCond == t_so_far < total_timesteps

\* A plausible slip: an episode more once the target is just reached.
RolloutCondInclusive == t <= timesteps_per_batch

\* rollout, line 130: the loop test.
RolloutCond == t < timesteps_per_batch

\* A plausible slip: an inner epoch too many.
InnerLoopCondInclusive == upd <= n_updates_per_iteration

\* learn, line 65: the test of the inner loop.
InnerLoopCond == upd < n_updates_per_iteration

\* A plausible slip: the observation is collected after the step.
ObsCollectedAfterStep(before, after) == after

\* rollout, line 145: the observation collected for a timestep is the one
\* held before the step, from which the action is sampled.
ObsCollected(before, after) == before

\* learn, lines 48-50, and rollout, lines 120-128: the loop test holds and
\* rollout is called, which starts with an empty batch.  What learn still
\* holds of the previous cycle is assigned again before it is read, and is
\* dropped here.
LearnCallRollout ==
    /\ pc = "learn"
    /\ LearnCond
    /\ batch_obs' = <<>> /\ batch_acts' = <<>> /\ batch_log_probs' = <<>>
    /\ batch_rews' = <<>> /\ batch_rtgs' = <<>> /\ batch_lens' = <<>>
    /\ t' = 0
    /\ V' = <<>> /\ curr_log_probs' = <<>> /\ A_k' = <<>> /\ upd' = 0
    /\ steps_log' = <<>>
    /\ n_rollouts' = n_rollouts + 1
    /\ pc' = "rollout_while"
    /\ UNCHANGED dqnVars
    /\ UNCHANGED <<total_timesteps, t_so_far, hyperVars, gamma, clip, ratios,
                   surr1, surr2, actor_loss, paramVars, envVars, ep_rews, obs,
                   done, ep_t, env_steps, n_rtgs, n_adv>>

\* learn, line 48: the loop test fails and learn returns.
LearnReturn ==
    /\ pc = "learn"
    /\ ~LearnCond
    /\ pc' = "done"
    /\ UNCHANGED dqnVars
    /\ UNCHANGED <<rtgVars, lossVars, ppoVars>>

\* rollout, lines 130-137: a new episode is started.
EpisodeStart ==
    /\ pc = "rollout_while"
    /\ RolloutCond
    /\ ep_rews' = <<>>
    /\ env' = EnvStart
    /\ obs' = Observation(env')
    /\ done' = FALSE
    /\ ep_t' = 0
    /\ pc' = "episode"
    /\ UNCHANGED dqnVars
    /\ UNCHANGED <<rtgVars, lossVars, hyperVars, batchVars, t, learnVars,
                   paramVars, env_cap, historyVars>>

\* rollout, lines 139-166: one timestep of the episode.
EpisodeStep ==
    /\ pc = "episode"
    /\ ~done
    /\ \E action \in ActionSamples, d \in BOOLEAN :
          LET log_prob == LogProb(actor, obs, action)
              direction == Direction(ArgMax(action))
              over == d \/ env.steps + 1 >= env_cap
              rew == EnvReward(env, direction)
          IN  /\ ep_t' = ep_t + 1
              /\ t' = t + 1
              /\ env' = EnvStep(env, direction, over)
              /\ obs' = Observation(env')
              /\ batch_obs' = Append(batch_obs, ObsCollected(obs, obs'))
              /\ done' = over
              /\ ep_rews' = Append(ep_rews, rew)
              /\ batch_acts' = Append(batch_acts, action)
              /\ batch_log_probs' = Append(batch_log_probs, log_prob)
              /\ steps_log' = Append(steps_log,
                     [obs |-> obs, action |-> action, log_prob |-> log_prob,
                      rew |-> rew, ep |-> Len(batch_rews) + 1])
    /\ env_steps' = env_steps + 1
    /\ UNCHANGED dqnVars
    /\ UNCHANGED <<pc, rtgVars, lossVars, hyperVars, batch_lens, learnVars,
                   paramVars, env_cap, n_rollouts, n_rtgs, n_adv>>

\* rollout, lines 168-175: the episode is over and is added to the batch;
\* plot(env.get_score()) reads the game and changes nothing of the model.
EpisodeEnd ==
    /\ pc = "episode"
    /\ done
    /\ batch_lens' = Append(batch_lens, ep_t + 1)
    /\ batch_rews' = Append(batch_rews, ep_rews)
    /\ pc' = "rollout_while"
    /\ UNCHANGED dqnVars
    /\ UNCHANGED <<gamma, batch_rtgs, lossVars, hyperVars, batch_obs,
                   batch_acts, batch_log_probs, episodeVars, learnVars,
                   paramVars, envVars, historyVars>>

\* rollout, lines 177-186: the loop test fails, the rewards-to-go are
\* computed and the batch is returned to learn.
RolloutReturn ==
    /\ pc = "rollout_while"
    /\ ~RolloutCond
    /\ batch_rtgs' = compute_rtgs(batch_rews, gamma)
    /\ n_rtgs' = n_rtgs + 1
    /\ pc' = "collected"
    /\ UNCHANGED dqnVars
    /\ UNCHANGED <<gamma, batch_rews, lossVars, hyperVars, batchVars,
                   episodeVars, learnVars, paramVars, envVars, steps_log,
                   env_steps, n_rollouts, n_adv>>

\* learn, line 53.
LearnCount ==
    /\ pc = "collected"
    /\ t_so_far' = t_so_far + np_sum(batch_lens)
    /\ pc' = "advantage"
    /\ UNCHANGED dqnVars
    /\ UNCHANGED <<rtgVars, lossVars, hyperVars, batchVars, episodeVars,
                   total_timesteps, V, curr_log_probs, upd, paramVars, envVars,
                   historyVars>>

\* A plausible slip: the game is reset while the advantages are computed.
ComputeAdvantageResettingEnv ==
    /\ pc = "advantage"
    /\ V' = EvaluateV(critic, batch_obs)
    /\ A_k' = Advantage(batch_rtgs, V')
    /\ n_adv' = n_adv + 1
    /\ upd' = 0
    /\ env' = EnvStart
    /\ pc' = "update"
    /\ UNCHANGED dqnVars
    /\ UNCHANGED <<rtgVars, clip, ratios, surr1, surr2, actor_loss, hyperVars,
                   batchVars, episodeVars, total_timesteps, t_so_far,
                   curr_log_probs, paramVars, env_cap, steps_log, env_steps,
                   n_rollouts, n_rtgs>>

\* learn, lines 56-63: the values, of which evaluate's second result is
\* dropped, and the normalized advantages.
ComputeAdvantage ==
    /\ pc = "advantage"
    /\ V' = EvaluateV(critic, batch_obs)
    /\ A_k' = Advantage(batch_rtgs, V')
    /\ n_adv' = n_adv + 1
    /\ upd' = 0
    /\ pc' = "update"
    /\ UNCHANGED dqnVars
    /\ UNCHANGED <<rtgVars, clip, ratios, surr1, surr2, actor_loss, hyperVars,
                   batchVars, episodeVars, total_timesteps, t_so_far,
                   curr_log_probs, paramVars, envVars, steps_log, env_steps,
                   n_rollouts, n_rtgs>>

\* learn, lines 65-83: an inner epoch evaluates the batch, computes the two
\* losses and steps the actor's optimizer.  The losses are numbers computed
\* from network outputs, which are terms here; their arithmetic is that of
\* ComputeActorLoss, and the step they feed is a step of the parameters.
EpochActorStep ==
    /\ pc = "update"
    /\ InnerLoopCond
    /\ V' = EvaluateV(critic, batch_obs)
    /\ curr_log_probs' = EvaluateLogProbs(actor, batch_obs, batch_acts)
    /\ actor' = actor + 1
    /\ pc' = "critic_step"
    /\ UNCHANGED dqnVars
    /\ UNCHANGED <<rtgVars, lossVars, hyperVars, batchVars, episodeVars,
                   total_timesteps, t_so_far, upd, critic, envVars,
                   historyVars>>

\* learn, lines 85-88: the critic's optimizer steps; the epoch is over.
EpochCriticStep ==
    /\ pc = "critic_step"
    /\ critic' = critic + 1
    /\ upd' = upd + 1
    /\ pc' = "update"
    /\ UNCHANGED dqnVars
    /\ UNCHANGED <<rtgVars, lossVars, hyperVars, batchVars, episodeVars,
                   total_timesteps, t_so_far, V, curr_log_probs, actor,
                   envVars, historyVars>>

\* learn, line 65: the inner loop is over; back to the loop test of line 48.
UpdateDone ==
    /\ pc = "update"
    /\ ~InnerLoopCond
    /\ pc' = "learn"
    /\ UNCHANGED dqnVars
    /\ UNCHANGED <<rtgVars, lossVars, ppoVars>>

Next ==
    \/ LearnCallRollout
    \/ LearnReturn
    \/ EpisodeStart
    \/ EpisodeStep
    \/ EpisodeEnd
    \/ RolloutReturn
    \/ LearnCount
    \/ ComputeAdvantage
    \/ EpochActorStep
    \/ EpochCriticStep
    \/ UpdateDone

Spec == Init /\ [][Next]_vars

\* learn runs on: nothing but the end of learn stops the program.
FairSpec == Spec /\ WF_vars(Next)

(***************************************************************************)
(* Agent.remember, called with any transitions                             *)
(*                                                                         *)
(* The source gives the memory the capacity MAX_MEMOMRY = 100_000; the     *)
(* model runs the agent for every capacity within its bound.               *)
(***************************************************************************)
\* A plausible slip: a plain list, which never evicts.
list_append(dq, maxlen, x) == Append(dq, x)

\* deque(maxlen=...).append(x): a full deque drops its leftmost item.
deque_append(dq, maxlen, x) ==
    IF Len(dq) = maxlen THEN Append(Tail(dq), x) ELSE Append(dq, x)

GameStates == 0..2
Transitions ==
    {<<s, a, 1, s + 1, dn>> : s \in {0, 1}, a \in {K_UP}, dn \in {FALSE}}
      \cup {<<2, K_RIGHT, 0, 0, TRUE>>}

InitAgent ==
    /\ pc = "agent"
    /\ AgentInit
    /\ memory_maxlen \in 1..MaxMemory
    /\ TrainIdle
    /\ RtgIdle /\ LossIdle /\ PPOIdle

\* Agent.remember, lines 44-45
Remember(tr) ==
    /\ memory' = deque_append(memory, memory_maxlen, tr)
    /\ inserted' = Append(inserted, tr)

RememberCall ==
    /\ pc = "agent"
    /\ Len(inserted) < MaxInserts
    /\ \E tr \in Transitions : Remember(tr)
    /\ UNCHANGED <<pc, n_games, epsilon, memory_maxlen, trainVars, rtgVars,
                   lossVars, ppoVars>>

NextAgent == RememberCall

SpecAgent == InitAgent /\ [][NextAgent]_vars

(***************************************************************************)
(* train(): the training loop of the deep-Q agent                          *)
(***************************************************************************)
\* The match statements of get_action; final_move starts as K_UP.
FinalMove(move) ==
    CASE move = 0 -> K_UP
      [] move = 1 -> K_RIGHT
      [] move = 2 -> K_DOWN
      [] move = 3 -> K_LEFT
      [] OTHER -> K_UP

\* Agent.get_state: what the agent reads of the game.
get_state(g) == g

InitTrain ==
    /\ pc = "get_state_old"
    /\ AgentInit
    /\ memory_maxlen = MaxMemory
    /\ game \in GameStates
    /\ state_old = 0 /\ state_new = 0 /\ final_move = K_UP
    /\ reward = 0 /\ game_done = FALSE /\ score = 0 /\ returned_move = K_UP
    /\ RtgIdle /\ LossIdle /\ PPOIdle

\* train, line 101
TrainGetStateOld ==
    /\ pc = "get_state_old"
    /\ state_old' = get_state(game)
    /\ pc' = "get_action"
    /\ UNCHANGED <<agentVars, game, state_new, final_move, reward, game_done,
                   score, returned_move, rtgVars, lossVars, ppoVars>>

\* train, line 104, and Agent.get_action, lines 59-73 and 88: the draw is
\* below epsilon and a random move is returned.
TrainGetActionRandom ==
    /\ pc = "get_action"
    /\ epsilon' = 80 - n_games
    /\ \E draw \in 0..200, move \in 0..3 :
          /\ draw < epsilon'
          /\ final_move' = FinalMove(move)
    /\ returned_move' = final_move'
    /\ pc' = "override"
    /\ UNCHANGED <<n_games, memory, memory_maxlen, inserted, game, state_old,
                   state_new, reward, game_done, score, rtgVars, lossVars,
                   ppoVars>>

\* Agent.get_action, lines 74-76: the draw is not below epsilon, and the
\* prediction is asked of self.model, which is None: the program stops with
\* an AttributeError.
TrainGetActionPredict ==
    /\ pc = "get_action"
    /\ epsilon' = 80 - n_games
    /\ \E draw \in 0..200 : ~(draw < epsilon')
    /\ pc' = "crashed"
    /\ UNCHANGED <<n_games, memory, memory_maxlen, inserted, trainVars,
                   rtgVars, lossVars, ppoVars>>

\* train, line 107
TrainOverride ==
    /\ pc = "override"
    /\ final_move' = K_RIGHT
    /\ pc' = "game_update"
    /\ UNCHANGED <<agentVars, game, state_old, state_new, reward, game_done,
                   score, returned_move, rtgVars, lossVars, ppoVars>>

\* train, line 108: the game plays final_move and answers with a reward,
\* whether it is over, and the score.
TrainGameUpdate ==
    /\ pc = "game_update"
    /\ \E g \in GameStates, r \in {0, 1}, dn \in BOOLEAN :
          /\ game' = g
          /\ reward' = r
          /\ game_done' = dn
          /\ score' = r
    /\ pc' = "get_state_new"
    /\ UNCHANGED <<agentVars, state_old, state_new, final_move, returned_move,
                   rtgVars, lossVars, ppoVars>>

\* train, line 109
TrainGetStateNew ==
    /\ pc = "get_state_new"
    /\ state_new' = get_state(game)
    /\ pc' = "train_short_memory"
    /\ UNCHANGED <<agentVars, game, state_old, final_move, reward, game_done,
                   score, returned_move, rtgVars, lossVars, ppoVars>>

\* train, line 112, and Agent.train_short_memory, line 57: self.trainer is
\* None, and the program stops with an AttributeError.  Lines 115 to 126 of
\* train are never reached.
TrainShortMemory ==
    /\ pc = "train_short_memory"
    /\ pc' = "crashed"
    /\ UNCHANGED <<dqnVars, rtgVars, lossVars, ppoVars>>

NextTrain ==
    \/ TrainGetStateOld
    \/ TrainGetActionRandom
    \/ TrainGetActionPredict
    \/ TrainOverride
    \/ TrainGameUpdate
    \/ TrainGetStateNew
    \/ TrainShortMemory

SpecTrain == InitTrain /\ [][NextTrain]_vars

(***************************************************************************)
(* The claims                                                              *)
(***************************************************************************)
\* The index before the first value of episode e in the flat sequence.
EpisodeOffset(rews, e) == SumSeq([j \in 1..(e - 1) |-> Len(rews[j])], e - 1)

\* C1: compute_rtgs returns one flat sequence holding, for each episode in
\* batch order and in forward time order, values g with g_n = r_n for the
\* last reward of the episode and g_i = r_i + gamma * g_(i+1) before it.
C1_RtgsRecursion ==
    pc = "rtgs_returned" =>
        /\ Len(batch_rtgs) = EpisodeOffset(batch_rews, Len(batch_rews) + 1)
        /\ \A e \in 1..Len(batch_rews) :
              LET ep == batch_rews[e]
                  off == EpisodeOffset(batch_rews, e)
              IN  \A i \in 1..Len(ep) :
                     batch_rtgs[off + i] =
                        IF i = Len(ep) THEN RInt(ep[i])
                        ELSE RAdd[RInt(ep[i]),
                                  RMul[gamma, batch_rtgs[off + i + 1]]]

\* The example of the claim, followed by a second episode.
C1_Witness ==
    /\ pc = "rtgs_returned"
    /\ gamma = <<1, 2>>
    /\ batch_rews = << <<1, 1, 1>>, <<0, 1>> >>
    /\ batch_rtgs = << <<7, 4>>, <<3, 2>>, <<1, 1>>, <<1, 2>>, <<1, 1>> >>

\* C2: when rollout returns, the timesteps collected are at least
\* timesteps_per_batch and exceed it by less than the length of the last
\* episode; an episode starts only below the target, and every episode of
\* the batch ran until the game was over.
C2_RolloutBatchSize ==
    /\ pc = "collected" =>
          /\ t >= timesteps_per_batch
          /\ Len(batch_obs) = t
          /\ Len(steps_log) = t
          /\ t - timesteps_per_batch < Len(batch_rews[Len(batch_rews)])
    /\ pc = "episode" => t - ep_t < timesteps_per_batch
    /\ (pc \in {"rollout_while", "collected"} /\ batch_rews # <<>>) => env.over
    /\ (pc = "episode" /\ ~done) => ~env.over

C2_Witness ==
    /\ pc = "collected"
    /\ Len(batch_rews) = 2
    /\ t = timesteps_per_batch + 1

Phase ==
    CASE pc \in {"rollout_while", "episode", "collected"} -> "COLLECTING"
      [] pc \in {"advantage", "update", "critic_step"} -> "UPDATING"
      [] pc = "learn" -> "TEST"
      [] OTHER -> "DONE"

PhaseStep ==
    \/ Phase' = Phase
    \/ Phase = "TEST" /\ Phase' = "COLLECTING" /\ t_so_far < total_timesteps
    \/ Phase = "COLLECTING" /\ Phase' = "UPDATING"
    \/ Phase = "UPDATING" /\ Phase' = "TEST" /\ n_adv = n_rollouts
    \/ Phase = "TEST" /\ Phase' = "DONE" /\ t_so_far >= total_timesteps

\* C3: learn alternates one rollout and one update phase while the counter
\* is below the budget and then terminates; with a budget equal to
\* timesteps_per_batch and episodes of exactly one step it performs exactly
\* one rollout and one update phase; and it always terminates.
C3_LearnAlternatesAndTerminates ==
    /\ <>(pc = "done")
    /\ [](pc = "done" => t_so_far >= total_timesteps)
    /\ []((pc = "done" /\ env_cap = 1 /\ total_timesteps = timesteps_per_batch)
            => /\ n_rollouts = 1
               /\ n_adv = 1
               /\ actor = n_updates_per_iteration
               /\ critic = n_updates_per_iteration)
    /\ [][PhaseStep]_vars

C3_Witness ==
    /\ pc = "done"
    /\ env_cap = 1
    /\ timesteps_per_batch = 2
    /\ total_timesteps = 2
    /\ n_rollouts = 1
    /\ Len(batch_rews) = 2

\* C4: the counter t_so_far is the number of environment steps taken so
\* far, each reported episode length is the number of steps of its episode,
\* and the reported lengths add up to the observations of the batch.
C4_CounterIsStepsTaken ==
    /\ pc \in {"advantage", "update", "critic_step", "learn", "done"}
          => t_so_far = env_steps
    /\ pc = "collected" =>
          /\ \A e \in 1..Len(batch_lens) : batch_lens[e] = Len(batch_rews[e])
          /\ np_sum(batch_lens) = Len(batch_obs)

\* The reward-to-go of timestep i, from the rewards the game paid at i and
\* later in the same episode.
RECURSIVE RewardToGo(_, _, _)
RewardToGo(log, i, g) ==
    IF i < Len(log) /\ log[i + 1].ep = log[i].ep
    THEN RAdd[RInt(log[i].rew), RMul[g, RewardToGo(log, i + 1, g)]]
    ELSE RInt(log[i].rew)

\* C5: in a returned batch the observations, actions, log probabilities and
\* rewards-to-go have one length, and position i of each belongs to
\* timestep i: the observation the action was sampled from, the log
\* probability of that action, the reward-to-go of that step.
C5_BatchAligned ==
    pc = "collected" =>
        /\ Len(batch_obs) = Len(steps_log)
        /\ Len(batch_acts) = Len(steps_log)
        /\ Len(batch_log_probs) = Len(steps_log)
        /\ Len(batch_rtgs) = Len(steps_log)
        /\ \A i \in 1..Len(steps_log) :
              /\ batch_obs[i] = steps_log[i].obs
              /\ batch_acts[i] = steps_log[i].action
              /\ batch_log_probs[i] = steps_log[i].log_prob
              /\ batch_log_probs[i] = LogProb(actor, batch_obs[i], batch_acts[i])
              /\ batch_rtgs[i] = RewardToGo(steps_log, i, gamma)

\* Two episodes, the second of two steps with different moves.
C5_Witness ==
    /\ pc = "collected"
    /\ Len(batch_rews) = 2
    /\ Len(batch_rews[2]) = 2
    /\ batch_acts[2] # batch_acts[3]
    /\ batch_rtgs = << <<1, 1>>, <<1, 2>>, <<1, 1>> >>

\* The memory holds the last min(maxlen, n) of the n transitions inserted.
LastInserted ==
    LET n == Len(inserted)
        k == IF n < memory_maxlen THEN n ELSE memory_maxlen
    IN  [i \in 1..k |-> inserted[n - k + i]]

\* C6: the replay memory never holds more than its capacity, and holds the
\* most recently inserted transitions in insertion order.
C6_MemoryIsFifo ==
    /\ Len(memory) <= memory_maxlen
    /\ memory = LastInserted

\* One transition more than the capacity was inserted, the first is gone.
C6_Witness ==
    /\ memory_maxlen = 2
    /\ Len(inserted) = memory_maxlen + 1
    /\ Len(memory) = memory_maxlen
    /\ \A i \in 1..Len(memory) : memory[i] # inserted[1]

\* The per-sample term of the claim, case by case.
ClippedTerm(r, a, eps) ==
    LET lo == RSub[RInt(1), eps]
        hi == RAdd[RInt(1), eps]
    IN  IF RLt(RInt(0), a) /\ RLt(hi, r) THEN RNeg(RMul[hi, a])
        ELSE IF RLt(a, RInt(0)) /\ RLt(r, lo) THEN RNeg(RMul[lo, a])
        ELSE RNeg(RMul[r, a])

\* C7: each per-sample term of the actor loss is -min(r*A, clip(r)*A): it is
\* -(1+eps)*A for A > 0 and r > 1+eps, -(1-eps)*A for A < 0 and r < 1-eps,
\* and -r*A for r within [1-eps, 1+eps]; the loss is the mean of the terms.
C7_ClippedSurrogate ==
    pc = "loss_computed" =>
        /\ \A i \in 1..Len(ratios) :
              RNeg(RMin(surr1[i], surr2[i])) = ClippedTerm(ratios[i], A_k[i], clip)
        /\ actor_loss =
              Mean([i \in 1..Len(ratios) |-> ClippedTerm(ratios[i], A_k[i], clip)])

\* A sample on which the clip is active and one on which it is not.
C7_Witness ==
    /\ pc = "loss_computed"
    /\ clip = <<1, 5>>
    /\ ratios = << <<3, 2>>, <<9, 10>> >>
    /\ A_k = << <<2, 1>>, <<-1, 1>> >>
    /\ actor_loss = <<-3, 4>>

RolloutPcs == {"rollout_while", "episode"}
UpdatePcs == {"collected", "advantage", "update", "critic_step"}

C8_Step ==
    /\ actor' # actor => pc = "update" /\ pc' = "critic_step"
    /\ critic' # critic => pc = "critic_step"
    /\ pc \in RolloutPcs => actor' = actor /\ critic' = critic
    /\ env' # env => pc \in RolloutPcs
    /\ pc \in UpdatePcs => env' = env

\* C8: the parameters change only by the optimizer steps of the update
\* phase and not during a rollout, so that every action of a batch is
\* sampled from the same parameters; the game changes only by the rollout's
\* reset and step calls and not during the update phase.
C8_ParametersAndGameFrames ==
    /\ [][C8_Step]_vars
    /\ [](pc \in RolloutPcs \cup {"collected"} =>
            \A i \in 1..Len(batch_log_probs) :
               batch_log_probs[i] = LogProb(actor, steps_log[i].obs, batch_acts[i]))

\* A second rollout, played with parameters the first cycle has updated.
C8_Witness ==
    /\ pc = "collected"
    /\ n_rollouts = 2
    /\ actor > 0
    /\ critic > 0
    /\ Len(batch_acts) >= 2

C9_Step ==
    (pc \in {"update", "critic_step"} /\ pc' \in {"update", "critic_step"})
       => UNCHANGED <<batch_obs, batch_acts, batch_log_probs, batch_rtgs, A_k,
                      n_rtgs, n_adv>>

\* C9: in each cycle the rewards-to-go and the advantages are computed
\* once; the update phase runs n_updates_per_iteration inner epochs, each
\* one actor step followed by one critic step, on an unchanged batch.
C9_UpdatePhase ==
    /\ [][C9_Step]_vars
    /\ [](pc \in {"update", "critic_step", "learn", "done"} =>
            /\ n_rtgs = n_rollouts
            /\ n_adv = n_rollouts)
    /\ [](pc \in {"learn", "done"} =>
            /\ actor = n_rollouts * n_updates_per_iteration
            /\ critic = n_rollouts * n_updates_per_iteration)
    /\ [](pc \in {"update", "critic_step"} =>
            /\ upd <= n_updates_per_iteration
            /\ critic = (n_rollouts - 1) * n_updates_per_iteration + upd
            /\ actor = critic + (IF pc = "critic_step" THEN 1 ELSE 0)
            /\ A_k = Advantage(batch_rtgs,
                        EvaluateV((n_rollouts - 1) * n_updates_per_iteration,
                                  batch_obs)))

\* Two cycles of two inner epochs each are over.
C9_Witness ==
    /\ pc = "learn"
    /\ n_rollouts = 2
    /\ n_updates_per_iteration = 2
    /\ actor = 4
    /\ critic = 4

\* C10: the move the game plays in a step of train is the move get_action
\* returned for the current state, with epsilon = 80 - n_games.
C10_MovePlayedIsReturned ==
    pc \in {"game_update", "get_state_new", "train_short_memory"} =>
        /\ epsilon = 80 - n_games
        /\ final_move = returned_move
=============================================================================
